---- MODULE Spec2Model ----
(***************************************************************************)
(* src-context: the file selection and budget-fitting pipeline.            *)
(*                                                                         *)
(* gatherFiles -> processFiles -> (budget allocation) -> return, as run by *)
(* generateContext and by getFileStats.  Paths are sequences of segments   *)
(* (the segments of the forward-slash path string); glob patterns are      *)
(* records interpreted with the gitignore semantics of the `ignore`        *)
(* package (last matching rule wins, an ignored parent directory cannot be *)
(* re-included).  Token counts are natural numbers.                        *)
(***************************************************************************)
EXTENDS Integers, Sequences, FiniteSets, TLC

VARIABLES
    tree,            \* the files that exist below the working directory
    tok,             \* tok[p]: tokens of the processed text content of text file p
    opts,            \* the ContextEngineOptions of the call, control files included
    pc,              \* position of the call
    files,           \* result of gatherFiles: filesToInclude, filesToMinify
    stats,           \* the BuildStats record threaded through the pipeline
    processedFiles,  \* result of processFiles (sorted in place)
    priorityFiles,   \* budget allocation: priority partition, ascending
    remainingFiles,  \* budget allocation: the other partition, ascending
    budgetFiles,     \* budget allocation: accepted files, in acceptance order
    totalTokens,     \* budget allocation: running total
    cursor,          \* budget allocation: index of the next file of the current loop
    warned,          \* priority files skipped with a console warning
    result,          \* what the call returned
    text,            \* readAndProcessTextFile: the file read, the options, the content made
    watch            \* watch mode: the clock, the state of asyncDebounce, timers, builds, promises

vars == << tree, tok, opts, text, watch, pc, files, stats, processedFiles, priorityFiles,
           remainingFiles, budgetFiles, totalTokens, cursor, warned, result, text, watch >>

-----------------------------------------------------------------------------
(* Bounds of the model.                                                    *)

MaxMissing == 0     \* Spec: at most this many files of the universe are absent
MaxTok == 2         \* SpecBudget: largest token count of a text file
MaxBudget == 5      \* largest token budget
MaxLines == 4       \* SpecText: most lines of a file content
MaxCalls == 3       \* SpecWatch: most watcher events
MaxTime == 6        \* SpecWatch: last tick of the clock

Wait == 2           \* the debounce delay of asyncDebounce(runBuild, 300), in ticks

NoBudget == -1      \* options.tokenBudget === undefined

-----------------------------------------------------------------------------
(* The universe of files.  PathOrder is the order in which glob reports    *)
(* them (glob's order is fixed for a given file system).                   *)

PathOrder ==
    << <<"a.js">>,
       <<"src", "b.js">>,
       <<"c.log">>,
       <<".env">>,
       <<".git", "config">>,
       <<"sub", ".git">>,
       <<"logo.svg">>,
       <<"big.js">>,
       <<"src", "gone.js">>,
       <<"src", "d.js">> >>

Range(s) == { s[i] : i \in 1..Len(s) }

AllPaths == Range(PathOrder)

\* index of a path in glob's order
OrderOf(p) == CHOOSE i \in 1..Len(PathOrder) : PathOrder[i] = p

Last(s) == s[Len(s)]

\* extension of a file name: path.split('.').pop().toLowerCase()
Ext(seg) ==
    CASE seg \in {"a.js", "b.js", "big.js", "gone.js", "d.js"} -> "js"
      [] seg = "c.log" -> "log"
      [] seg = ".env" -> "env"
      [] seg = ".git" -> "git"
      [] seg = "logo.svg" -> "svg"
      [] seg = "main.py" -> "py"
      [] seg = "main.go" -> "go"
      [] seg = "conf.yaml" -> "yaml"
      [] seg = "rules.mk" -> "mk"
      [] seg = "Makefile" -> "makefile"
      [] OTHER -> seg

\* segment.startsWith('.')
StartsWithDot(seg) == seg \in {".env", ".git", "."}

\* segment.slice(1) for a segment that starts with a dot
DotStripped(seg) ==
    CASE seg = ".env" -> "env"
      [] seg = ".git" -> "git"
      [] OTHER -> seg

\* the file a path string names: './a.js' (written << ".", "a.js" >>) names a.js
FileOf(p) == IF Len(p) >= 2 /\ p[1] = "." THEN Tail(p) ELSE p

\* fs: size above maxFileKb, reading fails, content sniffed as binary
IsLarge(p) == FileOf(p) = <<"big.js">>
ReadFails(p) == FileOf(p) = <<"src", "gone.js">>
IsSvg(p) == Ext(Last(p)) = "svg"

-----------------------------------------------------------------------------
(* Patterns and the `ignore` matcher.                                      *)
(*   name    'package-lock.json'   a file or directory of that name        *)
(*   ext     '*.log', '**/*.log'   a name with that extension              *)
(*   dirstar 'dist/**'             everything below the top-level dir      *)
(*   dir     'src/'                a directory of that name                *)
(* neg is the '!' prefix.                                                  *)

Pat(kind, arg) == [neg |-> FALSE, kind |-> kind, arg |-> arg]
Neg(kind, arg) == [neg |-> TRUE, kind |-> kind, arg |-> arg]

\* does the rule's regex match the path `pre` (a directory when isDir)
RuleMatches(rule, pre, isDir) ==
    CASE rule.kind = "name" -> Last(pre) = rule.arg
      [] rule.kind = "ext" -> Ext(Last(pre)) = rule.arg /\ Last(pre) # rule.arg
      [] rule.kind = "dirstar" -> Len(pre) >= 2 /\ pre[1] = rule.arg
      [] rule.kind = "dir" -> isDir /\ Last(pre) = rule.arg
      [] OTHER -> FALSE

\* ignore's _testOne: the last rule that matches decides
TestOne(rules, pre, isDir) ==
    LET hits == { i \in 1..Len(rules) : RuleMatches(rules[i], pre, isDir) }
    IN  hits # {} /\ ~rules[CHOOSE i \in hits : \A j \in hits : j <= i].neg

\* ignore().add(rules).ignores(path): a path below an ignored directory is
\* ignored, otherwise the rules are tested on the path itself
Ignores(rules, path) ==
    \E k \in 1..Len(path) : TestOne(rules, SubSeq(path, 1, k), k < Len(path))

\* src/defaultIgnores: the built-in patterns that can match a file of the universe
defaultIgnores ==
    << Pat("dirstar", "node_modules"), Pat("dirstar", ".git"), Pat("name", ".env"),
       Pat("dirstar", "dist"), Pat("ext", "log") >>

-----------------------------------------------------------------------------
(* gatherFiles                                                             *)

\* join(inputPath, file) for the files glob finds below the directory inputPath,
\* or the input path itself, as written, when it is a file (a file given as
\* './name' is added as './name')
Expand(inputPath) ==
    IF inputPath \in { <<".">>, <<"./">> } THEN SelectSeq(PathOrder, LAMBDA p : p \in tree)
    ELSE IF inputPath[1] = "." THEN (IF Tail(inputPath) \in tree THEN << inputPath >> ELSE <<>>)
    ELSE SelectSeq(PathOrder, LAMBDA p :
            /\ p \in tree
            /\ Len(p) >= Len(inputPath)
            /\ SubSeq(p, 1, Len(inputPath)) = inputPath)

\* allFilesSet: insertion order, duplicates dropped
RECURSIVE DedupFrom(_, _)
DedupFrom(s, i) ==
    IF i > Len(s) THEN <<>>
    ELSE (IF \E j \in 1..(i - 1) : s[j] = s[i] THEN <<>> ELSE << s[i] >>) \o DedupFrom(s, i + 1)

Dedup(s) == DedupFrom(s, 1)

RECURSIVE Discover(_)
Discover(inputPaths) ==
    IF inputPaths = <<>> THEN <<>>
    ELSE Discover(SubSeq(inputPaths, 1, Len(inputPaths) - 1)) \o Expand(Last(inputPaths))

AllFiles(inputPaths) == Dedup(Discover(inputPaths))

\* file.startsWith(inputPath), on the path strings: '.' prefixes the files whose
\* first segment starts with a dot, './' prefixes only a path written './name'
\* (no joined path is)
StartsWith(file, inputPath) ==
    IF inputPath = <<".">> THEN StartsWithDot(file[1])
    ELSE IF inputPath = <<"./">> THEN file[1] = "."
    ELSE Len(file) >= Len(inputPath) /\ SubSeq(file, 1, Len(inputPath)) = inputPath

\* file.slice(inputPath.length).replace(/^[\/\\]/, '')
SliceAfter(file, inputPath) ==
    IF inputPath = <<".">>
    THEN (IF file[1] = "." THEN Tail(file) ELSE << DotStripped(file[1]) >> \o Tail(file))
    ELSE SubSeq(file, Len(inputPath) + 1, Len(file))

\* the path handed to the ignore matchers: the first input path that prefixes
\* the file is cut off; an empty remainder falls back to the file
RelativePathForIgnore(file, inputPaths) ==
    LET hits == { i \in 1..Len(inputPaths) : StartsWith(file, inputPaths[i]) }
    IN  IF hits = {} THEN file
        ELSE LET first == CHOOSE i \in hits : \A j \in hits : i <= j
                 rel == SliceAfter(file, inputPaths[first])
             IN  IF rel = <<>> THEN file ELSE rel

\* normalizedFilePath.includes('.git/') || normalizedFilePath.endsWith('.git')
IsGitPathNoSafetyCheck(file) == FALSE
IsGitPath(file) ==
    \/ \E k \in 1..(Len(file) - 1) : Ext(file[k]) = "git"
    \/ Ext(Last(file)) = "git"

\* the ignore patterns combined in order of precedence: default, custom, CLI
CombinedIgnoreCliFirst(o) ==
    o.cliIgnores \o o.customPatterns \o (IF o.noDefaultIgnores THEN <<>> ELSE defaultIgnores)
CombinedIgnore(o) ==
    (IF o.noDefaultIgnores THEN <<>> ELSE defaultIgnores) \o o.customPatterns \o o.cliIgnores

DefaultIgnore(o) == IF o.noDefaultIgnores THEN <<>> ELSE defaultIgnores

\* the tier an excluded path is charged to
IgnoredByDefaultFirst(rel, o) ==
    IF Ignores(DefaultIgnore(o), rel) THEN "default"
    ELSE IF o.customPatterns # <<>> /\ Ignores(o.customPatterns, rel) THEN "custom"
    ELSE "cli"
IgnoredBy(rel, o) ==
    IF o.cliIgnores # <<>> /\ Ignores(o.cliIgnores, rel) THEN "cli"
    ELSE IF o.customPatterns # <<>> /\ Ignores(o.customPatterns, rel) THEN "custom"
    ELSE "default"

ClassifyIgnoreFirst(file, o) ==
    LET rel == RelativePathForIgnore(file, o.inputPaths)
    IN  IF IsGitPath(file) THEN "git"
        ELSE IF Ignores(CombinedIgnore(o), rel) THEN IgnoredBy(rel, o)
        ELSE IF Ignores(o.minifyPatterns, rel) THEN "minify"
        ELSE "include"

\* classification of one discovered file: "git", "minify", "cli", "custom",
\* "default" or "include"
Classify(file, o) ==
    LET rel == RelativePathForIgnore(file, o.inputPaths)
    IN  IF IsGitPath(file) THEN "git"
        ELSE IF Ignores(o.minifyPatterns, rel) THEN "minify"
        ELSE IF Ignores(CombinedIgnore(o), rel) THEN IgnoredBy(rel, o)
        ELSE "include"

\* the classification of every discovered file, in order
RECURSIVE ClassifyAll(_, _)
ClassifyAll(all, o) ==
    IF all = <<>> THEN <<>>
    ELSE << Classify(all[1], o) >> \o ClassifyAll(Tail(all), o)

\* stats.filesIgnored = ignoredByDefault + ignoredByCustom + ignoredByCli
FilesIgnoredNoCli(byDefault, byCustom, byCli) == byDefault + byCustom
FilesIgnored(byDefault, byCustom, byCli) == byDefault + byCustom + byCli

\* the statistics gatherFiles returns for the discovered files `all`, cls[i]
\* being the classification of all[i]
GatherStats(all, cls) ==
    LET count(classes) == Cardinality({ i \in 1..Len(all) : cls[i] \in classes })
        byDefault == count({"git", "default"})
        byCustom == count({"custom"})
        byCli == count({"cli"})
    IN  [ totalFilesFound |-> Len(all),
          filesToInclude |-> count({"include"}),
          filesToMinify |-> count({"minify"}),
          filesIgnored |-> FilesIgnored(byDefault, byCustom, byCli),
          filesIgnoredByDefault |-> byDefault,
          filesIgnoredByCustom |-> byCustom,
          filesIgnoredByCli |-> byCli,
          binaryAndSvgFiles |-> 0,
          skippedLargeFiles |-> 0,
          totalTokenCount |-> 0,
          topTokenConsumers |-> <<>> ]

\* the elements of `all` whose classification is c, in order
RECURSIVE OfClass(_, _, _)
OfClass(all, cls, c) ==
    IF all = <<>> THEN <<>>
    ELSE LET front == OfClass(SubSeq(all, 1, Len(all) - 1), cls, c)
         IN  IF cls[Len(all)] = c THEN Append(front, Last(all)) ELSE front

GatherFiles ==
    /\ pc = "start"
    /\ LET all == AllFiles(opts.inputPaths)
           cls == ClassifyAll(all, opts)
       IN  /\ files' = [ filesToInclude |-> OfClass(all, cls, "include"),
                         filesToMinify |-> OfClass(all, cls, "minify") ]
           /\ stats' = GatherStats(all, cls)
    /\ pc' = "gathered"
    /\ UNCHANGED << tree, tok, opts, text, watch, processedFiles, priorityFiles, remainingFiles,
                    budgetFiles, totalTokens, cursor, warned, result >>

-----
(* processFiles                                                            *)
(* The tokenizer is modelled by token counts: a text content of file p has *)
(* tok[p] tokens; a placeholder sentence naming a path and the header line *)
(* "# path" each cost one token per path segment; the code fence costs two *)
(* tokens.                                                                 *)

PlaceholderTok(p) == Len(p)
HeaderTok(p) == Len(p)

\* encode(formatFileContent(path, content)).length for a content of n tokens
FormattedTok(p, n, fenced) == HeaderTok(p) + n + (IF fenced THEN 2 ELSE 0)

\* handleBinaryOrSvgFile: token count of the placeholder alone, no fence
BinaryResult(p) ==
    [ path |-> p, kind |-> "binary", tokenCount |-> PlaceholderTok(p),
      contentTok |-> FormattedTok(p, PlaceholderTok(p), FALSE) ]

\* readAndProcessTextFile: token count of the content before formatting
TextResult(p) ==
    [ path |-> p, kind |-> "text", tokenCount |-> tok[FileOf(p)],
      contentTok |-> FormattedTok(p, tok[FileOf(p)], TRUE) ]

\* handleFileError: the error sentence names the file and the error
ErrorResult(p) ==
    [ path |-> p, kind |-> "error", tokenCount |-> PlaceholderTok(p) + 1,
      contentTok |-> FormattedTok(p, PlaceholderTok(p) + 1, TRUE) ]

\* processMinifiedFile: token count of the formatted placeholder
MinifiedResult(p) ==
    [ path |-> p, kind |-> "minified", tokenCount |-> FormattedTok(p, PlaceholderTok(p), TRUE),
      contentTok |-> FormattedTok(p, PlaceholderTok(p), TRUE) ]

\* one iteration of the loop over files.filesToInclude
IncludeResult(p) ==
    IF ReadFails(p) THEN ErrorResult(p)
    ELSE IF IsSvg(p) THEN BinaryResult(p)
    ELSE TextResult(p)

RECURSIVE SumTokens(_)
SumTokens(s) == IF s = <<>> THEN 0 ELSE s[1].tokenCount + SumTokens(Tail(s))

\* Array.prototype.sort is stable: x goes behind every element that does not
\* have to come after it
RECURSIVE InsertDesc(_, _)
InsertDesc(sorted, x) ==
    IF sorted = <<>> THEN << x >>
    ELSE IF x.tokenCount > sorted[1].tokenCount THEN << x >> \o sorted
    ELSE << sorted[1] >> \o InsertDesc(Tail(sorted), x)

RECURSIVE InsertAsc(_, _)
InsertAscAppend(sorted, x) == Append(sorted, x)
InsertAsc(sorted, x) ==
    IF sorted = <<>> THEN << x >>
    ELSE IF x.tokenCount < sorted[1].tokenCount THEN << x >> \o sorted
    ELSE << sorted[1] >> \o InsertAsc(Tail(sorted), x)

RECURSIVE SortDesc(_)
\* s.sort((a, b) => b.tokenCount - a.tokenCount)
SortDesc(s) ==
    IF s = <<>> THEN <<>> ELSE InsertDesc(SortDesc(SubSeq(s, 1, Len(s) - 1)), Last(s))

RECURSIVE SortAsc(_)
\* s.sort((a, b) => a.tokenCount - b.tokenCount)
SortAscDescending(s) == SortDesc(s)
SortAsc(s) ==
    IF s = <<>> THEN <<>> ELSE InsertAsc(SortAsc(SubSeq(s, 1, Len(s) - 1)), Last(s))

\* the { path, tokenCount } projection of a processed file
StatOf(f) == [ path |-> f.path, tokenCount |-> f.tokenCount ]

\* files.map(file => ({ path: file.path, tokenCount: file.tokenCount }))
StatsOf(s) == [ i \in 1..Len(s) |-> StatOf(s[i]) ] \o <<>>

\* sorted.slice(0, 3).map(r => ({ path, tokenCount }))
TopThree(sorted) ==
    StatsOf(SubSeq(sorted, 1, IF Len(sorted) < 3 THEN Len(sorted) ELSE 3))

\* processFiles without the try/catch around a file: a file that fails is dropped
ResultsDropFailed(f) ==
    LET kept == SelectSeq(f.filesToInclude, LAMBDA p : ~IsLarge(p) /\ ~ReadFails(p))
    IN  ([ i \in 1..Len(kept) |-> IncludeResult(kept[i]) ] \o <<>>)
            \o ([ i \in 1..Len(f.filesToMinify) |-> MinifiedResult(f.filesToMinify[i]) ] \o <<>>)

\* the results array before the final sort: included files that are not
\* skipped for their size, then the minified files
Results(f) ==
    LET kept == SelectSeq(f.filesToInclude, LAMBDA p : ~IsLarge(p))
    IN  ([ i \in 1..Len(kept) |-> IncludeResult(kept[i]) ] \o <<>>)
            \o ([ i \in 1..Len(f.filesToMinify) |-> MinifiedResult(f.filesToMinify[i]) ] \o <<>>)

\* updateStats, over the whole run
TotalTokenCountNoMinified(results) ==
    SumTokens(SelectSeq(results, LAMBDA r : r.kind # "minified"))
TotalTokenCount(results) == SumTokens(results)

ProcessFiles ==
    /\ pc = "gathered"
    /\ LET results == Results(files)
           sortedResults == SortDesc(results)
       IN  /\ processedFiles' = sortedResults
           /\ stats' = [ stats EXCEPT
                  !.skippedLargeFiles =
                      Cardinality({ i \in 1..Len(files.filesToInclude) : IsLarge(files.filesToInclude[i]) }),
                  !.binaryAndSvgFiles =
                      Cardinality({ i \in 1..Len(results) : results[i].kind = "binary" }),
                  !.totalTokenCount = TotalTokenCount(results),
                  !.topTokenConsumers = TopThree(sortedResults) ]
    /\ pc' = "processed"
    /\ UNCHANGED << tree, tok, opts, text, watch, files, priorityFiles, remainingFiles,
                    budgetFiles, totalTokens, cursor, warned, result >>

-----------------------------------------------------------------------------
(* Budget allocation, generateContext and getFileStats.  The two functions *)
(* run the same loops, generateContext over the processed files and        *)
(* getFileStats over their { path, tokenCount } projections.               *)

\* priorityMatcher.ignores(file.path)
IsPriority(f) == Ignores(opts.priorityPatterns, f.path)

\* the list the budget loops of `call` partition
BudgetInputOf(call) ==
    IF call = "getFileStats" THEN StatsOf(processedFiles) ELSE processedFiles

BudgetInput == BudgetInputOf(opts.call)

\* totalTokens + file.tokenCount <= options.tokenBudget
FitsAlone(total, f, budget) == f.tokenCount <= budget
FitsStrictly(total, f, budget) == total + f.tokenCount < budget
FitsFlipped(total, f, budget) == total + f.tokenCount >= budget
FitsBudget(total, f, budget) == total + f.tokenCount <= budget

Fits(f) == FitsBudget(totalTokens, f, opts.tokenBudget)

\* the partition, and priorityFiles.sort(ascending)
PartitionFilesRemainingFirst ==
    /\ pc = "processed"
    /\ opts.tokenBudget # NoBudget
    /\ priorityFiles' = SortAsc(SelectSeq(BudgetInput, LAMBDA f : ~IsPriority(f)))
    /\ remainingFiles' = SelectSeq(BudgetInput, IsPriority)
    /\ budgetFiles' = <<>>
    /\ totalTokens' = 0
    /\ cursor' = 1
    /\ pc' = "priority"
    /\ UNCHANGED << tree, tok, opts, text, watch, files, stats, processedFiles, warned, result >>
PartitionFiles ==
    /\ pc = "processed"
    /\ opts.tokenBudget # NoBudget
    /\ priorityFiles' = SortAsc(SelectSeq(BudgetInput, IsPriority))
    /\ remainingFiles' = SelectSeq(BudgetInput, LAMBDA f : ~IsPriority(f))
    /\ budgetFiles' = <<>>
    /\ totalTokens' = 0
    /\ cursor' = 1
    /\ pc' = "priority"
    /\ UNCHANGED << tree, tok, opts, text, watch, files, stats, processedFiles, warned, result >>

\* a priority file that fits is accepted
AcceptPriority ==
    /\ pc = "priority"
    /\ cursor <= Len(priorityFiles)
    /\ Fits(priorityFiles[cursor])
    /\ budgetFiles' = Append(budgetFiles, priorityFiles[cursor])
    /\ totalTokens' = totalTokens + priorityFiles[cursor].tokenCount
    /\ cursor' = cursor + 1
    /\ UNCHANGED << tree, tok, opts, text, watch, pc, files, stats, processedFiles, priorityFiles,
                    remainingFiles, warned, result >>

\* a priority file that does not fit is skipped with a warning; the loop goes on
SkipPriorityStop ==
    /\ pc = "priority"
    /\ cursor <= Len(priorityFiles)
    /\ ~Fits(priorityFiles[cursor])
    /\ warned' = warned \cup { priorityFiles[cursor].path }
    /\ pc' = "allocated"
    /\ UNCHANGED << tree, tok, opts, text, watch, cursor, files, stats, processedFiles, priorityFiles,
                    remainingFiles, budgetFiles, totalTokens, result >>
SkipPriority ==
    /\ pc = "priority"
    /\ cursor <= Len(priorityFiles)
    /\ ~Fits(priorityFiles[cursor])
    /\ warned' = warned \cup { priorityFiles[cursor].path }
    /\ cursor' = cursor + 1
    /\ UNCHANGED << tree, tok, opts, text, watch, pc, files, stats, processedFiles, priorityFiles,
                    remainingFiles, budgetFiles, totalTokens, result >>

\* end of the priority loop: remainingFiles.sort(ascending)
SortRemaining ==
    /\ pc = "priority"
    /\ cursor > Len(priorityFiles)
    /\ remainingFiles' = SortAsc(remainingFiles)
    /\ cursor' = 1
    /\ pc' = "remaining"
    /\ UNCHANGED << tree, tok, opts, text, watch, files, stats, processedFiles, priorityFiles,
                    budgetFiles, totalTokens, warned, result >>

AcceptRemaining ==
    /\ pc = "remaining"
    /\ cursor <= Len(remainingFiles)
    /\ Fits(remainingFiles[cursor])
    /\ budgetFiles' = Append(budgetFiles, remainingFiles[cursor])
    /\ totalTokens' = totalTokens + remainingFiles[cursor].tokenCount
    /\ cursor' = cursor + 1
    /\ UNCHANGED << tree, tok, opts, text, watch, pc, files, stats, processedFiles, priorityFiles,
                    remainingFiles, warned, result >>

\* the loop over the remaining files ends at the first file that does not fit
StopRemaining ==
    /\ pc = "remaining"
    /\ \/ cursor > Len(remainingFiles)
       \/ /\ cursor <= Len(remainingFiles)
          /\ ~Fits(remainingFiles[cursor])
    /\ pc' = "allocated"
    /\ UNCHANGED << tree, tok, opts, text, watch, files, stats, processedFiles, priorityFiles,
                    remainingFiles, budgetFiles, totalTokens, cursor, warned, result >>

\* generateStructureTree: !path.includes('.git/') && !path.endsWith('.git')
TreeKeeps(p) == ~(\/ \E k \in 1..(Len(p) - 1) : Ext(p[k]) = "git"
                  \/ Ext(Last(p)) = "git")

TreePaths(fs) == { fs[i].path : i \in { j \in 1..Len(fs) : TreeKeeps(fs[j].path) } }

RECURSIVE SumContentTok(_)
SumContentTok(s) == IF s = <<>> THEN 0 ELSE s[1].contentTok + SumContentTok(Tail(s))

\* tokens of treeString + '\n\n' + contents.join('\n\n'), counted from below:
\* the root line, one token per tree entry, and the tokens of every block
FinalContentTok(fs) == 1 + Cardinality(TreePaths(fs)) + SumContentTok(fs)

\* the names of the universe in the order of Array.prototype.sort (by code unit)
NameOrder ==
    << ".", ".env", "a.js", "b.js", "big.js", "c.log", "config", "d.js", "gone.js",
       "logo.svg", "src", "sub" >>

\* the parts of a path that generateStructureTree walks: '.git' is skipped
TreeParts(p) == SelectSeq(p, LAMBDA part : part # ".git")

\* Object.keys(node).sort() of the node reached by the parts `at`
TreeKeys(paths, at) ==
    SelectSeq(NameOrder, LAMBDA key :
        \E q \in paths : Len(q) > Len(at) /\ SubSeq(q, 1, Len(at)) = at /\ q[Len(at) + 1] = key)

\* treeToString(node, prefix, isLast), the lines of the string in order: the
\* entries of the node `at` from the index-th key on, then what follows.
\* Each line is drawn with the connector chosen by isLast, the parameter.
RECURSIVE TreeToStringFrom(_, _, _, _, _)
TreeToStringFrom(paths, at, index, prefix, isLast) ==
    LET keys == TreeKeys(paths, at)
    IN  IF index > Len(keys) THEN <<>>
        ELSE LET key == keys[index]
                 isLastKey == index = Len(keys)
                 currentPrefix == Append(prefix, IF isLast THEN "    " ELSE "|   ")
                 line == [ dir |-> at, prefix |-> prefix, key |-> key,
                           connector |-> IF isLast THEN "last" ELSE "branch" ]
             IN  << line >>
                   \o (IF Append(at, key) \in paths THEN <<>>
                       ELSE TreeToStringFrom(paths, Append(at, key), 1, currentPrefix, isLastKey))
                   \o TreeToStringFrom(paths, at, index + 1, prefix, isLast)

\* generateStructureTree: the lines below the root line './'
generateStructureTree(fs) ==
    TreeToStringFrom({ TreeParts(p) : p \in TreePaths(fs) }, <<>>, 1, <<>>, TRUE)

\* the statistics of the budgeted return: generateContext recomputes the top
\* consumers from budgetFiles, getFileStats keeps those of processFiles
UpdatedStatsOf(call, accepted, total, sortedBudget) ==
    [ stats EXCEPT
        !.filesToInclude = Len(accepted),
        !.totalTokenCount = total,
        !.topTokenConsumers =
            IF call = "generateContext" THEN TopThree(sortedBudget) ELSE @ ]

UpdatedStats(sortedBudget) ==
    UpdatedStatsOf(opts.call, budgetFiles, totalTokens, sortedBudget)

\* what the call returns: the files of the output in output order, the
\* statistics and, for generateContext, the token length of finalContent
ReturnedOf(call, fs, st) ==
    IF call = "generateContext"
    THEN [ call |-> call, files |-> fs, stats |-> st, finalContentTok |-> FinalContentTok(fs),
           treeString |-> generateStructureTree(fs) ]
    ELSE [ call |-> call, files |-> fs, stats |-> st ]

Returned(fs, st) == ReturnedOf(opts.call, fs, st)

\* budgetFiles.sort(descending) in place, then the return
ReturnBudgeted ==
    /\ pc = "allocated"
    /\ LET sortedBudget == SortDesc(budgetFiles)
       IN  /\ budgetFiles' = sortedBudget
           /\ result' = Returned(sortedBudget, UpdatedStats(sortedBudget))
    /\ pc' = "done"
    /\ UNCHANGED << tree, tok, opts, text, watch, files, stats, processedFiles, priorityFiles,
                    remainingFiles, totalTokens, cursor, warned >>

\* no tokenBudget: everything processed is returned
ReturnUnbudgeted ==
    /\ pc = "processed"
    /\ opts.tokenBudget = NoBudget
    /\ result' = Returned(SortDesc(BudgetInput), stats)
    /\ pc' = "done"
    /\ UNCHANGED << tree, tok, opts, text, watch, files, stats, processedFiles, priorityFiles,
                    remainingFiles, budgetFiles, totalTokens, cursor, warned >>

-----------------------------------------------------------------------------
(* Initial states.                                                         *)

Calls == { "generateContext", "getFileStats" }

\* contents of .contextignore
CustomChoices == { <<>>, << Pat("ext", "js") >>, << Neg("ext", "log") >> }
\* --ignore patterns
CliChoices == { <<>>, << Pat("name", "b.js") >>, << Neg("ext", "js") >> }
\* contents of .contextminify
MinifyChoices ==
    { <<>>, << Pat("ext", "log"), Pat("name", "d.js") >>, << Pat("name", "config"), Pat("name", "d.js") >> }
\* contents of .contextpriority
PriorityChoices == { <<>>, << Pat("name", "a.js"), Pat("name", "b.js") >>, << Pat("dir", "src") >> }
\* input paths of the call
InputChoices ==
    { << <<".">> >>, << <<"./">> >>, << <<"src">>, <<".">> >>, << <<"src">>, <<"a.js">> >> }

\* token count of a text content, by default
DefaultTok == [ p \in AllPaths |-> Len(p) ]

\* no text file is being looked at
NoText == [ stage |-> "none" ]

\* the fields of a call before it starts
IdleCall ==
    /\ pc = "start"
    /\ files = [ filesToInclude |-> <<>>, filesToMinify |-> <<>> ]
    /\ stats = GatherStats(<<>>, <<>>)
    /\ processedFiles = <<>>
    /\ priorityFiles = <<>>
    /\ remainingFiles = <<>>
    /\ budgetFiles = <<>>
    /\ totalTokens = 0
    /\ cursor = 1
    /\ warned = {}
    /\ result = [ call |-> "pending" ]

\* watch mode is off
NoWatch == [ stage |-> "off" ]

Idle == text = NoText /\ watch = NoWatch /\ IdleCall

\* a project tree with every kind of file, all pattern files, a budget or none
Init ==
    /\ tree \in { AllPaths \ m : m \in { x \in SUBSET AllPaths : Cardinality(x) <= MaxMissing } }
    /\ tok = DefaultTok
    /\ opts \in [ call : Calls,
                  inputPaths : InputChoices,
                  cliIgnores : CliChoices,
                  customPatterns : CustomChoices,
                  minifyPatterns : MinifyChoices,
                  priorityPatterns : PriorityChoices,
                  noDefaultIgnores : BOOLEAN,
                  tokenBudget : { NoBudget, MaxBudget } ]
    /\ Idle

\* the text files the budget runs draw their trees from
PlainPaths == { <<"a.js">>, <<"src", "b.js">>, <<"src", "d.js">>, <<"c.log">> }

\* small trees of text files with every combination of token counts, every budget
InitBudget ==
    /\ tree \in SUBSET PlainPaths
    /\ opts \in [ call : Calls,
                  inputPaths : { << <<".">> >> },
                  cliIgnores : { <<>> },
                  customPatterns : { <<>> },
                  minifyPatterns : { << Pat("ext", "log") >> },
                  priorityPatterns : PriorityChoices,
                  noDefaultIgnores : { FALSE },
                  tokenBudget : { NoBudget } \cup 0..MaxBudget ]
    /\ tok \in [ { p \in tree : ~Ignores(opts.minifyPatterns, p) } -> 0..MaxTok ]
    /\ Idle

\* pattern files and input paths of the runs that exercise the ignore tiers
CustomChoicesIgnore == CustomChoices \cup { << Pat("dir", "src") >> }
CliChoicesIgnore == CliChoices \cup { << Neg("name", "b.js") >>, << Neg("ext", "log") >> }
\* a directory with a file inside it, the file written 'src/b.js' or './a.js'
OverlapInputChoices ==
    { << <<"src">>, <<"src", "b.js">> >>, << <<".">>, <<".", "a.js">> >> }

\* the full tree with every combination of the ignore tiers and input paths
\* that overlap.  A file path written './name' is not taken together with a
\* budget: the priority matcher is handed file.path as it is.
InitIgnore ==
    /\ tree = AllPaths
    /\ tok = DefaultTok
    /\ opts \in [ call : Calls,
                  inputPaths : InputChoices \cup OverlapInputChoices,
                  cliIgnores : CliChoicesIgnore,
                  customPatterns : CustomChoicesIgnore,
                  minifyPatterns : { <<>>, << Pat("name", "d.js") >> },
                  priorityPatterns : { <<>>, << Pat("dir", "src") >> },
                  noDefaultIgnores : BOOLEAN,
                  tokenBudget : { NoBudget, MaxBudget } ]
    /\ (\E i \in 1..Len(opts.inputPaths) : Len(opts.inputPaths[i]) >= 2 /\ opts.inputPaths[i][1] = ".")
           => opts.tokenBudget = NoBudget
    /\ Idle

Next ==
    \/ GatherFiles
    \/ ProcessFiles
    \/ PartitionFiles
    \/ AcceptPriority
    \/ SkipPriority
    \/ SortRemaining
    \/ AcceptRemaining
    \/ StopRemaining
    \/ ReturnBudgeted
    \/ ReturnUnbudgeted

Spec == Init /\ [][Next]_vars

SpecBudget == InitBudget /\ [][Next]_vars

SpecIgnore == InitIgnore /\ [][Next]_vars

-----------------------------------------------------------------------------
(* readAndProcessTextFile on one file.  A content is a sequence of lines   *)
(* (content.split('\n')), a line a sequence of characters.  The characters *)
(* are "x" (any other character), " ", "#", "q" (the double quote), "/",   *)
(* "!" and "go:" (the text 'go:embed static' of a Go directive).  Contents *)
(* hold no single quote and no backslash.                                  *)

\* basename(path).toLowerCase()
LowerName(name) == IF name = "Makefile" THEN "makefile" ELSE name

\* the extensions isWhitespaceSensitive lists
whitespaceSensitiveExtensions ==
    { "yaml", "yml", "haml", "pug", "sass", "styl", "hs", "fs", "coffee", "ws" }

\* isWhitespaceSensitive
IsWhitespaceSensitiveExtOnly(name) == Ext(name) \in whitespaceSensitiveExtensions
IsWhitespaceSensitive(name) ==
    \/ LowerName(name) = "makefile"
    \/ Ext(LowerName(name)) = "mk"
    \/ Ext(name) \in whitespaceSensitiveExtensions

\* isPythonFilePath
IsPythonFilePath(name) == Ext(name) = "py"

\* line.trimEnd() and line.trimStart(), on a sequence of characters
RECURSIVE TrimEnd(_)
TrimEnd(line) ==
    IF line # <<>> /\ line[Len(line)] \in { " ", "\n" }
    THEN TrimEnd(SubSeq(line, 1, Len(line) - 1)) ELSE line

RECURSIVE TrimStart(_)
TrimStart(line) ==
    IF line # <<>> /\ line[1] \in { " ", "\n" } THEN TrimStart(Tail(line)) ELSE line

\* line.indexOf('"""', from), 0 when there is none
TripleAt(line, j) ==
    j + 2 <= Len(line) /\ line[j] = "q" /\ line[j + 1] = "q" /\ line[j + 2] = "q"

IndexOfTriple(line, from) ==
    LET hits == { j \in from..Len(line) : TripleAt(line, j) }
    IN  IF hits = {} THEN 0 ELSE CHOOSE j \in hits : \A k \in hits : j <= k

\* a second '"""' follows the first on the line
ClosesOnLine(line) == IndexOfTriple(line, IndexOfTriple(line, 1) + 3) # 0

\* the scan for a '#' outside quotes: its index, 0 when there is none
RECURSIVE CommentIndex(_, _, _)
CommentIndex(line, j, inDoubleQuotes) ==
    IF j > Len(line) THEN 0
    ELSE IF line[j] = "q" THEN CommentIndex(line, j + 1, ~inDoubleQuotes)
    ELSE IF line[j] = "#" /\ ~inDoubleQuotes THEN j
    ELSE CommentIndex(line, j + 1, inDoubleQuotes)

\* a line outside triple quotes: everything from the '#' on is removed
StripPythonLine(line) ==
    LET commentIndex == CommentIndex(line, 1, FALSE)
    IN  IF commentIndex = 0 THEN line ELSE TrimEnd(SubSeq(line, 1, commentIndex - 1))

\* processPythonContent, from line i on
RECURSIVE PythonFrom(_, _, _)
PythonFrom(lines, i, inTripleQuotes) ==
    IF i > Len(lines) THEN <<>>
    ELSE IF inTripleQuotes
         THEN << lines[i] >> \o PythonFrom(lines, i + 1, IndexOfTriple(lines[i], 1) = 0)
    ELSE IF IndexOfTriple(lines[i], 1) # 0
         THEN << lines[i] >> \o PythonFrom(lines, i + 1, ~ClosesOnLine(lines[i]))
    ELSE << StripPythonLine(lines[i]) >> \o PythonFrom(lines, i + 1, FALSE)

processPythonContent(content) == PythonFrom(content, 1, FALSE)

\* strip-comments on a line: the index of the first '//' outside a string
RECURSIVE SlashIndex(_, _, _)
SlashIndex(line, j, inString) ==
    IF j >= Len(line) THEN 0
    ELSE IF line[j] = "q" THEN SlashIndex(line, j + 1, ~inString)
    ELSE IF line[j] = "/" /\ line[j + 1] = "/" /\ ~inString THEN j
    ELSE SlashIndex(line, j + 1, inString)

\* strip(content, { safe: true, ... }): a line comment is removed up to the
\* end of its line unless it is protected ('//!'); the line break stays
StripLine(line) ==
    LET c == SlashIndex(line, 1, FALSE)
    IN  IF c = 0 \/ (c + 2 <= Len(line) /\ line[c + 2] = "!") THEN line
        ELSE SubSeq(line, 1, c - 1)

RECURSIVE StripComments(_)
StripComments(content) ==
    IF content = <<>> THEN <<>>
    ELSE << StripLine(content[1]) >> \o StripComments(Tail(content))

\* lines.join('\n') and content.split('\n')
RECURSIVE Join(_)
Join(lines) ==
    IF Len(lines) = 1 THEN lines[1] \o <<>>
    ELSE lines[1] \o << "\n" >> \o Join(Tail(lines))

RECURSIVE SplitFrom(_, _, _)
SplitFrom(flat, i, line) ==
    IF i > Len(flat) THEN << line >>
    ELSE IF flat[i] = "\n" THEN << line >> \o SplitFrom(flat, i + 1, <<>>)
    ELSE SplitFrom(flat, i + 1, Append(line, flat[i]))

Split(flat) == SplitFrom(flat, 1, <<>>)

\* content.replace(/\n{3,}/g, '\n\n'): of a run of line breaks two are kept
RECURSIVE CollapseFrom(_, _)
CollapseFrom(flat, i) ==
    IF i > Len(flat) THEN <<>>
    ELSE (IF i >= 3 /\ flat[i] = "\n" /\ flat[i - 1] = "\n" /\ flat[i - 2] = "\n"
          THEN <<>> ELSE << flat[i] >>) \o CollapseFrom(flat, i + 1)

RECURSIVE TrimEndLines(_)
TrimEndLines(lines) ==
    IF lines = <<>> THEN <<>>
    ELSE << TrimEnd(lines[1]) >> \o TrimEndLines(Tail(lines))

\* removeExtraWhitespace
removeExtraWhitespace(content) ==
    LET collapsed == CollapseFrom(Join(content), 1)
        trimmedLines == TrimEndLines(Split(collapsed))
    IN  Split(TrimStart(TrimEnd(Join(trimmedLines))))

\* the comment stripping step of readAndProcessTextFile
ProcessedContentAnyFile(name, content, stripFileComments) ==
    IF stripFileComments
    THEN (IF IsPythonFilePath(name) THEN processPythonContent(content) ELSE StripComments(content))
    ELSE content
ProcessedContent(name, content, stripFileComments) ==
    IF stripFileComments /\ ~IsWhitespaceSensitive(name)
    THEN (IF IsPythonFilePath(name) THEN processPythonContent(content) ELSE StripComments(content))
    ELSE content

\* the content readAndProcessTextFile puts between the code fences
FinalContent(name, content, stripFileComments, removeWhitespace) ==
    LET processedContent == ProcessedContent(name, content, stripFileComments)
    IN  IF removeWhitespace /\ ~IsWhitespaceSensitive(name) /\ ~IsPythonFilePath(name)
        THEN removeExtraWhitespace(processedContent)
        ELSE processedContent

\* readAndProcessTextFile on the file that was read
ReadAndProcessTextFile ==
    /\ text.stage = "read"
    /\ text' = [ text EXCEPT
                   !.stage = "done",
                   !.processedContent = ProcessedContent(text.name, text.fileContent, text.stripFileComments),
                   !.content = FinalContent(text.name, text.fileContent, text.stripFileComments,
                                                text.removeWhitespace) ]
    /\ UNCHANGED << tree, tok, opts, watch, pc, files, stats, processedFiles, priorityFiles,
                    remainingFiles, budgetFiles, totalTokens, cursor, warned, result >>

\* the files read, and the lines their contents are made of
PythonNames == { "main.py" }
OtherNames == { "main.go", "conf.yaml", "Makefile", "rules.mk" }

PythonLines ==
    { << "x" >>,
      << "x", " ", "#", "x" >>,
      << "#" >>,
      << "q", "q", "q" >>,
      << "#", "q", "q", "q" >>,
      << "q", "q", "q", "#", "q", "q", "q" >> }

OtherLines ==
    { << "x" >>,
      <<>>,
      << " ", "x", " " >>,
      << " " >>,
      << "/", "/", "x" >>,
      << "/", "/", "go:" >>,
      << "/", "/", "!", "x" >> }

\* the contents of one to MaxLines lines
ContentsOf(lines) == UNION { [ 1..n -> lines ] : n \in 1..MaxLines }

\* a file has been read; the pipeline is not running
InitText ==
    /\ tree = {}
    /\ tok = DefaultTok
    /\ opts = [ call |-> "generateContext", inputPaths |-> << <<".">> >>, cliIgnores |-> <<>>,
                customPatterns |-> <<>>, minifyPatterns |-> <<>>, priorityPatterns |-> <<>>,
                noDefaultIgnores |-> FALSE, tokenBudget |-> NoBudget ]
    /\ IdleCall
    /\ watch = NoWatch
    /\ \E name \in PythonNames \cup OtherNames :
       \E content \in ContentsOf(IF name \in PythonNames THEN PythonLines ELSE OtherLines) :
       \E stripFileComments, removeWhitespace \in BOOLEAN :
          text = [ stage |-> "read", name |-> name, fileContent |-> content \o <<>>,
                   stripFileComments |-> stripFileComments,
                   removeWhitespace |-> removeWhitespace,
                   processedContent |-> <<>>, content |-> <<>> ]

NextText == ReadAndProcessTextFile

SpecText == InitText /\ [][NextText]_vars

-----------------------------------------------------------------------------
(* Watch mode: debouncedRunBuild = asyncDebounce(runBuild, 300), called    *)
(* by the watcher's add, change and unlink handlers.  Time is counted in   *)
(* ticks; calls are numbered in the order they are made, call k owning     *)
(* promise k, timer k (due Wait ticks after the call) and, when timer k    *)
(* fires, execution k of runBuild.                                         *)

\* the watcher events that call debouncedRunBuild
WatchEvents == { "add", "change", "unlink" }

\* a call that was not made, a timer that does not exist
NoCall == 0

\* an execution that has not started or not finished
NotYet == -1

\* the calls made so far
CallIds == 1..watch.calls

\* the executions of runBuild in progress
Running == { k \in CallIds : watch.exec[k].at # NotYet /\ watch.exec[k].end = NotYet }

\* a promise is settled once: later resolve and reject calls do nothing
Settle(promise, k, state, by) ==
    IF k # NoCall /\ promise[k].state = "pending"
    THEN [ promise EXCEPT ![k] = [ state |-> state, by |-> by ] ]
    ELSE promise

\* the function asyncDebounce returns, called by a watcher handler.  A timer
\* that is due has run before the handler is called: an event at the tick a
\* timer is due comes a full delay after the call that set the timer.
DebouncedCall ==
    /\ watch.stage = "watching"
    /\ watch.calls < MaxCalls
    /\ \A j \in watch.timers : watch.calledAt[j] + Wait > watch.now
    /\ \E event \in WatchEvents :   \* the three handlers make the same call
         LET k == watch.calls + 1
         IN  watch' = [ watch EXCEPT
               !.calls = k,
               !.calledAt = Append(@, watch.now),
               \* if (timeout) clearTimeout(timeout): nothing happens when that timer has fired
               !.timers = (@ \ { watch.timeout }) \cup { k },
               \* if (latestReject) latestReject(new Error('Debounced'))
               !.promise = Settle(Append(@, [ state |-> "pending", by |-> NoCall ]),
                                  watch.latest, "debounced", NoCall),
               !.latest = k,
               !.timeout = k ]
    /\ UNCHANGED << tree, tok, opts, text, pc, files, stats, processedFiles, priorityFiles,
                    remainingFiles, budgetFiles, totalTokens, cursor, warned, result >>

\* the timer of call k runs: func(...args) starts
TimerFires ==
    /\ watch.stage = "watching"
    /\ \E k \in watch.timers :
         /\ watch.calledAt[k] + Wait <= watch.now
         /\ watch' = [ watch EXCEPT
               !.timers = @ \ { k },
               !.exec = [ @ EXCEPT ![k] = [ at |-> watch.now, end |-> NotYet ] ] ]
    /\ UNCHANGED << tree, tok, opts, text, pc, files, stats, processedFiles, priorityFiles,
                    remainingFiles, budgetFiles, totalTokens, cursor, warned, result >>

\* await func(...args) returns or throws in the timer callback of call k:
\* the stored resolve or reject is called, then the finally block runs
BuildSettles ==
    /\ watch.stage = "watching"
    /\ \E k \in Running : \E outcome \in { "resolved", "rejected" } :
         watch' = [ watch EXCEPT
               !.exec = [ @ EXCEPT ![k] = [ at |-> watch.exec[k].at, end |-> watch.now ] ],
               !.promise = Settle(@, watch.latest, outcome, k),
               !.timeout = NoCall,
               !.latest = NoCall ]
    /\ UNCHANGED << tree, tok, opts, text, pc, files, stats, processedFiles, priorityFiles,
                    remainingFiles, budgetFiles, totalTokens, cursor, warned, result >>

\* time passes; a timer that is due runs first
Tick ==
    /\ watch.stage = "watching"
    /\ watch.now < MaxTime
    /\ \A k \in watch.timers : watch.calledAt[k] + Wait > watch.now
    /\ watch' = [ watch EXCEPT !.now = @ + 1 ]
    /\ UNCHANGED << tree, tok, opts, text, pc, files, stats, processedFiles, priorityFiles,
                    remainingFiles, budgetFiles, totalTokens, cursor, warned, result >>

\* the watcher has been set up after the initial build; nothing else runs
InitWatch ==
    /\ tree = {}
    /\ tok = DefaultTok
    /\ opts = [ call |-> "generateContext", inputPaths |-> << <<".">> >>, cliIgnores |-> <<>>,
                customPatterns |-> <<>>, minifyPatterns |-> <<>>, priorityPatterns |-> <<>>,
                noDefaultIgnores |-> FALSE, tokenBudget |-> NoBudget ]
    /\ IdleCall
    /\ text = NoText
    /\ watch = [ stage |-> "watching", now |-> 0, calls |-> 0, calledAt |-> <<>>,
                 timeout |-> NoCall, latest |-> NoCall, timers |-> {},
                 exec |-> [ k \in 1..MaxCalls |-> [ at |-> NotYet, end |-> NotYet ] ],
                 promise |-> <<>> ]

NextWatch ==
    \/ DebouncedCall
    \/ TimerFires
    \/ BuildSettles
    \/ Tick

SpecWatch == InitWatch /\ [][NextWatch]_vars

-----------------------------------------------------------------------------
(* The allocation as a function of the budget: the two loops of            *)
(* generateContext / getFileStats run to their end on the list fs.         *)

\* the priority loop: a file that does not fit is skipped, the loop goes on
RECURSIVE TakePriority(_, _, _)
TakePriority(fs, total, budget) ==
    IF fs = <<>> THEN <<>>
    ELSE IF FitsBudget(total, fs[1], budget)
         THEN << fs[1] >> \o TakePriority(Tail(fs), total + fs[1].tokenCount, budget)
         ELSE TakePriority(Tail(fs), total, budget)

\* the loop over the remaining files: it breaks at the first file that does not fit
RECURSIVE TakeRemaining(_, _, _)
TakeRemaining(fs, total, budget) ==
    IF fs = <<>> THEN <<>>
    ELSE IF FitsBudget(total, fs[1], budget)
         THEN << fs[1] >> \o TakeRemaining(Tail(fs), total + fs[1].tokenCount, budget)
         ELSE <<>>

Selected(fs, budget) ==
    LET accepted == TakePriority(SortAsc(SelectSeq(fs, IsPriority)), 0, budget)
    IN  accepted \o TakeRemaining(SortAsc(SelectSeq(fs, LAMBDA f : ~IsPriority(f))),
                                  SumTokens(accepted), budget)

\* what `call` returns for the processed files and statistics of this run:
\* the body of generateContext / getFileStats after processFiles
Outcome(call) ==
    IF opts.tokenBudget = NoBudget
    THEN ReturnedOf(call, SortDesc(BudgetInputOf(call)), stats)
    ELSE LET accepted == Selected(BudgetInputOf(call), opts.tokenBudget)
             sortedBudget == SortDesc(accepted)
         IN  ReturnedOf(call, sortedBudget,
                        UpdatedStatsOf(call, accepted, SumTokens(accepted), sortedBudget))

-----------------------------------------------------------------------------
(* Claims.                                                                 *)

Done == pc = "done"
Budgeted == opts.tokenBudget # NoBudget
PathsOf(s) == { s[i].path : i \in 1..Len(s) }
Budgets == 0..MaxBudget

\* C1: with a token budget, the token counts of the files selected by the
\* allocation (priority and remaining together) never add up to more than the
\* budget, at any point of the allocation and in what generateContext and
\* getFileStats return.
C1_BudgetNeverExceeded ==
    /\ pc \in { "priority", "remaining", "allocated" } =>
          /\ totalTokens = SumTokens(budgetFiles)
          /\ totalTokens <= opts.tokenBudget
    /\ (Done /\ Budgeted) => SumTokens(result.files) <= opts.tokenBudget

\* C1 witness: a budgeted getFileStats call that accepted a priority file and a
\* remaining file, left a file out, and used the budget up exactly
C1_Witness ==
    /\ Done /\ Budgeted /\ opts.call = "getFileStats"
    /\ \E i, j \in 1..Len(result.files) : IsPriority(result.files[i]) /\ ~IsPriority(result.files[j])
    /\ Len(result.files) < Len(processedFiles)
    /\ SumTokens(result.files) = opts.tokenBudget

C3_Original ==
    (Done /\ Budgeted /\ opts.call = "generateContext") =>
        result.finalContentTok <= opts.tokenBudget

\* C4: the returned totalTokenCount is the sum of tokenCount over exactly the
\* files of the final output, with and without a budget.
C4_TotalTokenCount ==
    Done => result.stats.totalTokenCount = SumTokens(result.files)

\* C4 witness: an unbudgeted run whose output has a text file, a binary
\* placeholder, an error placeholder and a minified placeholder, and that
\* skipped a large file
C4_Witness ==
    /\ Done /\ ~Budgeted
    /\ result.stats.skippedLargeFiles > 0
    /\ \A k \in { "text", "binary", "error", "minified" } :
           \E i \in 1..Len(processedFiles) : processedFiles[i].kind = k
    /\ result.stats.totalTokenCount > 0

\* C9: for budgets B1 < B2 on the same processed files and priority patterns,
\* the files selected under B2 have at least the total token count of the
\* files selected under B1 (the allocation of the run being the one of its
\* budget).
C9_BudgetMonotone ==
    /\ pc = "allocated" => budgetFiles = Selected(BudgetInput, opts.tokenBudget)
    /\ pc = "processed" =>
          \A b1, b2 \in Budgets :
              b1 < b2 => SumTokens(Selected(BudgetInput, b1)) <= SumTokens(Selected(BudgetInput, b2))

\* C9 witness: a finished allocation, and a smaller budget whose selection has
\* fewer tokens but holds a file that the run's selection does not
C9_Witness ==
    /\ pc = "allocated"
    /\ \E b1 \in Budgets :
          /\ b1 < opts.tokenBudget
          /\ SumTokens(Selected(BudgetInput, b1)) < SumTokens(budgetFiles)
          /\ ~(PathsOf(Selected(BudgetInput, b1)) \subseteq PathsOf(budgetFiles))

\* the files the call discovered, and what the pattern sets say of them
Discovered == AllFiles(opts.inputPaths)
Rel(f) == RelativePathForIgnore(f, opts.inputPaths)
MinifyMatched(f) == Ignores(opts.minifyPatterns, Rel(f))
IgnoreMatched(f) ==
    \/ Ignores(DefaultIgnore(opts), Rel(f))
    \/ Ignores(opts.customPatterns, Rel(f))
    \/ Ignores(opts.cliIgnores, Rel(f))
Returning == pc \notin { "start" }

\* C5 as stated: the returned statistics satisfy
\* totalFilesFound = filesToInclude + filesToMinify + filesIgnored.
C5_Original ==
    Done => result.stats.totalFilesFound =
                result.stats.filesToInclude + result.stats.filesToMinify + result.stats.filesIgnored

\* C6: in the statistics of gatherFiles and in every returned statistics record
\* filesIgnored = filesIgnoredByDefault + filesIgnoredByCustom + filesIgnoredByCli.
C6_IgnoredBreakdown ==
    /\ Returning => stats.filesIgnored =
          stats.filesIgnoredByDefault + stats.filesIgnoredByCustom + stats.filesIgnoredByCli
    /\ Done => result.stats.filesIgnored =
          result.stats.filesIgnoredByDefault + result.stats.filesIgnoredByCustom
              + result.stats.filesIgnoredByCli

\* C6 witness: a returned record in which each of the three tiers ignored a file
C6_Witness ==
    /\ Done
    /\ result.stats.filesIgnoredByDefault > 0
    /\ result.stats.filesIgnoredByCustom > 0
    /\ result.stats.filesIgnoredByCli > 0

\* C7 as stated: a discovered path matched by the minify patterns and by an
\* ignore pattern set is classified as minify, is in the output as a minified
\* placeholder, and is not counted as ignored.
C7_Original ==
    Done =>
        /\ \A f \in Range(Discovered) :
               (MinifyMatched(f) /\ IgnoreMatched(f)) =>
                   /\ f \in Range(files.filesToMinify)
                   /\ f \in PathsOf(result.files)
                   /\ \E i \in 1..Len(processedFiles) :
                          processedFiles[i].path = f /\ processedFiles[i].kind = "minified"
        /\ result.stats.filesIgnored <=
               Cardinality({ f \in Range(Discovered) : ~MinifyMatched(f) })

\* C7 amended: a discovered path that the .git safety filter does not remove
\* and that is matched by the minify patterns and by an ignore pattern set is
\* classified as minify and processed into a minified placeholder, never
\* counted as ignored; without a token budget the placeholder is in the output,
\* with a budget it is in the output unless the allocation left it out.
C7_MinifyBeforeIgnore ==
    Returning =>
        /\ \A f \in Range(Discovered) :
               (~IsGitPath(f) /\ MinifyMatched(f) /\ IgnoreMatched(f)) =>
                   /\ f \in Range(files.filesToMinify)
                   /\ f \notin Range(files.filesToInclude)
                   /\ pc \notin { "gathered" } =>
                          \E i \in 1..Len(processedFiles) :
                              processedFiles[i].path = f /\ processedFiles[i].kind = "minified"
                   /\ (Done /\ ~Budgeted) => f \in PathsOf(result.files)
        /\ stats.filesIgnored <=
               Cardinality({ f \in Range(Discovered) : IsGitPath(f) \/ ~MinifyMatched(f) })

\* C7 witness: a returned unbudgeted run with a file matched by the minify
\* patterns and by the default patterns, and another matched by the minify
\* patterns and by the custom patterns
C7_Witness ==
    /\ Done /\ ~Budgeted
    /\ \E f, g \in Range(Discovered) :
          /\ ~IsGitPath(f) /\ MinifyMatched(f) /\ Ignores(DefaultIgnore(opts), Rel(f))
          /\ ~IsGitPath(g) /\ MinifyMatched(g) /\ Ignores(opts.customPatterns, Rel(g))
          /\ { f, g } \subseteq PathsOf(result.files)

\* a path inside a .git directory
InGitDir(p) == \E k \in 1..(Len(p) - 1) : p[k] = ".git"

\* C8: no path inside a .git directory is ever among the files to include, the
\* files to minify, the processed files or the returned output, whatever the
\* ignore, minify and negation patterns and the noDefaultIgnores flag.
C8_NoGitPaths ==
    \A p \in Range(files.filesToInclude) \cup Range(files.filesToMinify)
                \cup PathsOf(processedFiles) \cup PathsOf(budgetFiles)
                \cup (IF Done THEN PathsOf(result.files) ELSE {}) :
        ~InGitDir(p)

\* C8 witness: a run over a tree with a file in .git, default ignores
\* disabled and a minify pattern that matches the file, has returned
C8_Witness ==
    /\ Done
    /\ opts.noDefaultIgnores
    /\ \E f \in Range(Discovered) : InGitDir(f) /\ MinifyMatched(f) /\ ~IgnoreMatched(f)
    /\ result.files # <<>>

\* discovery order: position in the list of discovered files
DiscoveryIndex(p) == CHOOSE i \in 1..Len(Discovered) : Discovered[i] = p

\* a comes before b: more tokens, or as many and discovered earlier
RanksBefore(a, b) ==
    \/ a.tokenCount > b.tokenCount
    \/ a.tokenCount = b.tokenCount /\ DiscoveryIndex(a.path) < DiscoveryIndex(b.path)

\* the three highest-tokenCount entries of fs, descending, ties in discovery order
TopByDiscovery(fs) ==
    LET n == IF Len(fs) < 3 THEN Len(fs) ELSE 3
        rank(i) == Cardinality({ j \in 1..Len(fs) : RanksBefore(fs[j], fs[i]) }) + 1
    IN  [ r \in 1..n |-> StatOf(fs[CHOOSE i \in 1..Len(fs) : rank(i) = r]) ]

\* C10 as stated: the returned topTokenConsumers are exactly the 3 highest
\* tokenCount entries of the final output set (fewer if it has fewer files),
\* descending, files of equal tokenCount in discovery order.
C10_Original ==
    Done => result.stats.topTokenConsumers = TopByDiscovery(result.files)

\* the other entry point
OtherCall(call) == IF call = "generateContext" THEN "getFileStats" ELSE "generateContext"

\* C11 as stated: for the same options and the same tree, the files
\* getFileStats returns are the files of generateContext's output (same paths
\* and token counts, same order) and the two calls return equal statistics,
\* with or without a token budget.  The run's own result is compared with what
\* the other entry point returns for the same gathered and processed files.
C11_Original ==
    Done =>
        /\ StatsOf(result.files) = StatsOf(Outcome(OtherCall(opts.call)).files)
        /\ result.stats = Outcome(OtherCall(opts.call)).stats

\* the results of processFiles for path p
ResultsFor(p) == { i \in 1..Len(processedFiles) : processedFiles[i].path = p }

Negates(rules, rel) ==
    LET hits == { i \in 1..Len(rules) : RuleMatches(rules[i], rel, FALSE) }
    IN  hits # {} /\ rules[CHOOSE i \in hits : \A j \in hits : j <= i].neg

\* no rule of the tier matches the path itself
Silent(rules, rel) == \A i \in 1..Len(rules) : ~RuleMatches(rules[i], rel, FALSE)

\* a parent directory of the path is excluded by the combined patterns
ParentExcluded(rel) ==
    \E k \in 1..(Len(rel) - 1) : TestOne(CombinedIgnore(opts), SubSeq(rel, 1, k), TRUE)

\* the files the tier rule of C13 speaks about: not removed by the .git
\* filter, not taken by the minify patterns
Tiered(f) == ~IsGitPath(f) /\ ~MinifyMatched(f)

C17_Original ==
    /\ Returning =>
          /\ \A i, j \in 1..Len(Discovered) :
                FileOf(Discovered[i]) = FileOf(Discovered[j]) => i = j
          /\ stats.totalFilesFound = Cardinality({ FileOf(Discovered[i]) : i \in 1..Len(Discovered) })
    /\ Done =>
          \A i, j \in 1..Len(result.files) :
              FileOf(result.files[i].path) = FileOf(result.files[j].path) => i = j

\* the allocation is running or has ended
Allocating == pc \in { "priority", "remaining", "allocated" }

\* the accepted files that are priority files, and those that are not
AcceptedPriority == SelectSeq(budgetFiles, IsPriority)
AcceptedRemaining == SelectSeq(budgetFiles, LAMBDA f : ~IsPriority(f))

\* the priority files of the call that the priority loop has gone past
Evaluated(f) == f.path \in PathsOf(budgetFiles) \cup warned

\* the tokens of the accepted priority files that come before position k of
\* priorityFiles
PriorityTokensBefore(k) ==
    SumTokens(SelectSeq(SubSeq(priorityFiles, 1, k - 1),
                        LAMBDA f : f.path \in PathsOf(budgetFiles)))

\* C18: while the priority loop runs only priority files have been accepted;
\* a non-priority file is accepted only when every priority file has been
\* accepted or warned about; and a priority file is omitted because its
\* tokens, added to the tokens of the priority files accepted before it alone,
\* exceed the budget.
C18_PriorityEvaluatedFirst ==
    Allocating =>
        /\ pc = "priority" => AcceptedRemaining = <<>>
        /\ AcceptedRemaining # <<>> =>
              \A i \in 1..Len(BudgetInput) : IsPriority(BudgetInput[i]) => Evaluated(BudgetInput[i])
        /\ \A k \in 1..Len(priorityFiles) :
              priorityFiles[k].path \in warned =>
                  PriorityTokensBefore(k) + priorityFiles[k].tokenCount > opts.tokenBudget

\* C18 witness: the allocation has ended with a priority file accepted, a
\* larger priority file omitted, and a non-priority file accepted after them
C18_Witness ==
    /\ pc = "allocated"
    /\ AcceptedPriority # <<>>
    /\ AcceptedRemaining # <<>>
    /\ warned # {}

\* C19: a priority file that does not fit is left out and warned about by
\* name, and the allocation goes on: when it has ended every priority file has
\* been accepted or warned about (never both), and the non-priority files have
\* been tried, so that one of them is in the output whenever one of them fits
\* beside the accepted priority files.
C19_SkipContinues ==
    pc = "allocated" =>
        /\ \A i \in 1..Len(BudgetInput) :
              IsPriority(BudgetInput[i]) =>
                  /\ Evaluated(BudgetInput[i])
                  /\ ~(BudgetInput[i].path \in PathsOf(budgetFiles) /\ BudgetInput[i].path \in warned)
        /\ (\E i \in 1..Len(BudgetInput) :
                /\ ~IsPriority(BudgetInput[i])
                /\ SumTokens(AcceptedPriority) + BudgetInput[i].tokenCount <= opts.tokenBudget)
              => AcceptedRemaining # <<>>

\* C19 witness: the priority file is larger than the budget by itself and has
\* been omitted with a warning, and a non-priority file is in the output
C19_Witness ==
    /\ Done /\ Budgeted
    /\ \E i \in 1..Len(processedFiles) :
          /\ IsPriority(processedFiles[i])
          /\ processedFiles[i].tokenCount > opts.tokenBudget
          /\ processedFiles[i].path \in warned
          /\ processedFiles[i].path \notin PathsOf(result.files)
    /\ \E j \in 1..Len(result.files) : ~IsPriority(result.files[j])

\* the non-priority files of the call that were not accepted
RejectedRemaining ==
    SelectSeq(BudgetInput, LAMBDA f : ~IsPriority(f) /\ f.path \notin PathsOf(budgetFiles))

\* C20: the non-priority files are tried in ascending tokenCount order and
\* none is accepted after the first that does not fit: the accepted ones are
\* the first files of the list in loop order, that list is ascending, every
\* accepted file has at most the tokens of every rejected one, and at the end
\* the rejected files are exactly the rest of the list, starting with a file
\* that did not fit.
C20_RemainingPrefix ==
    pc \in { "remaining", "allocated" } =>
        /\ \A i, j \in 1..Len(remainingFiles) :
              i < j => remainingFiles[i].tokenCount <= remainingFiles[j].tokenCount
        /\ PathsOf(remainingFiles) = { BudgetInput[i].path : i \in { k \in 1..Len(BudgetInput) : ~IsPriority(BudgetInput[k]) } }
        /\ AcceptedRemaining = SubSeq(remainingFiles, 1, Len(AcceptedRemaining))
        /\ \A i \in 1..Len(AcceptedRemaining) : \A j \in 1..Len(RejectedRemaining) :
              AcceptedRemaining[i].tokenCount <= RejectedRemaining[j].tokenCount
        /\ (pc = "allocated" /\ Len(AcceptedRemaining) < Len(remainingFiles)) =>
              totalTokens + remainingFiles[Len(AcceptedRemaining) + 1].tokenCount > opts.tokenBudget

\* C20 witness: the loop has ended at a file that does not fit, with two
\* non-priority files accepted before it and a further file after it
C20_Witness ==
    /\ pc = "allocated"
    /\ Len(AcceptedRemaining) >= 2
    /\ Len(RejectedRemaining) >= 2

\* the files of SpecText that are whitespace-sensitive by extension or name
WhitespaceSensitiveFiles == { "conf.yaml", "Makefile", "rules.mk" }

RECURSIVE TripleChars(_, _, _, _, _)
TripleChars(lines, i, j, st, cur) ==
    IF i > Len(lines) THEN {}
    ELSE IF j > Len(lines[i])
         THEN TripleChars(lines, i + 1, 1, IF st = "triple" THEN "triple" ELSE "code", cur)
    ELSE IF st = "comment" THEN TripleChars(lines, i, j + 1, "comment", cur)
    ELSE IF st = "string"
         THEN TripleChars(lines, i, j + 1, IF lines[i][j] = "q" THEN "code" ELSE "string", cur)
    ELSE IF st = "triple"
         THEN IF TripleAt(lines[i], j)
              THEN (cur \cup { <<i, j>>, <<i, j + 1>>, <<i, j + 2>> })
                       \cup TripleChars(lines, i, j + 3, "code", {})
              ELSE TripleChars(lines, i, j + 1, "triple", cur \cup { <<i, j>> })
    ELSE IF lines[i][j] = "#" THEN TripleChars(lines, i, j + 1, "comment", cur)
    ELSE IF TripleAt(lines[i], j)
         THEN TripleChars(lines, i, j + 3, "triple", { <<i, j>>, <<i, j + 1>>, <<i, j + 2>> })
    ELSE IF lines[i][j] = "q" THEN TripleChars(lines, i, j + 1, "string", cur)
    ELSE TripleChars(lines, i, j + 1, "code", cur)

\* C15 as stated: Python comment stripping leaves every triple-quoted string
\* literal as it is, the # characters inside it included: every character of
\* such a literal is at its place in the processed content.
C15_Original ==
    (text.stage = "done" /\ IsPythonFilePath(text.name) /\ text.stripFileComments) =>
        /\ Len(text.content) = Len(text.fileContent)
        /\ \A pos \in TripleChars(text.fileContent, 1, 1, "code", {}) :
              /\ pos[2] <= Len(text.content[pos[1]])
              /\ text.content[pos[1]][pos[2]] = text.fileContent[pos[1]][pos[2]]

\* a Go directive line and an ordinary line comment
GoDirective == << "/", "/", "go:" >>
OrdinaryComment == << "/", "/", "x" >>

\* C16 as stated: with comment stripping on, a //go: directive line of a Go
\* file is in the output as it was written, and the ordinary // comments of
\* the file are not.
C16_Original ==
    (text.stage = "done" /\ text.name = "main.go" /\ text.stripFileComments) =>
        /\ \A i \in 1..Len(text.fileContent) :
              text.fileContent[i] = GoDirective =>
                  /\ text.processedContent[i] = GoDirective
                  /\ \E k \in 1..Len(text.content) : text.content[k] = GoDirective
        /\ \A k \in 1..Len(text.content) : text.content[k] # OrdinaryComment

\* the discovered paths that gatherFiles left out of both of its lists
Excluded == { f \in Range(Discovered) :
                f \notin Range(files.filesToInclude) \cup Range(files.filesToMinify) }

\* the first tier, in CLI > custom > default order, whose own pattern set
\* flags the path; "none" when no tier does
FirstFlagging(f) ==
    IF Ignores(opts.cliIgnores, Rel(f)) THEN "cli"
    ELSE IF Ignores(opts.customPatterns, Rel(f)) THEN "custom"
    ELSE IF Ignores(DefaultIgnore(opts), Rel(f)) THEN "default"
    ELSE "none"

\* C21 as stated: every excluded path is counted in exactly one of the three
\* counters, the one of the first tier in CLI > custom > default order whose
\* own pattern set flags the path.
C21_Original ==
    Returning =>
        /\ stats.filesIgnoredByCli = Cardinality({ f \in Excluded : FirstFlagging(f) = "cli" })
        /\ stats.filesIgnoredByCustom = Cardinality({ f \in Excluded : FirstFlagging(f) = "custom" })
        /\ stats.filesIgnoredByDefault = Cardinality({ f \in Excluded : FirstFlagging(f) = "default" })

\* C21 amended: every excluded path is counted in exactly one of the three
\* counters; a path removed by the .git safety filter is counted in
\* filesIgnoredByDefault whatever the pattern sets say, and every other
\* excluded path in the counter of the first tier in CLI > custom > default
\* order whose own pattern set flags it, one of which always does.
C21_TierCharged ==
    Returning =>
        /\ stats.filesIgnoredByCli =
              Cardinality({ f \in Excluded : ~IsGitPath(f) /\ FirstFlagging(f) = "cli" })
        /\ stats.filesIgnoredByCustom =
              Cardinality({ f \in Excluded : ~IsGitPath(f) /\ FirstFlagging(f) = "custom" })
        /\ stats.filesIgnoredByDefault =
              Cardinality({ f \in Excluded : IsGitPath(f) \/ FirstFlagging(f) = "default" })
        /\ \A f \in Excluded : ~IsGitPath(f) => FirstFlagging(f) # "none"
        /\ stats.filesIgnoredByCli + stats.filesIgnoredByCustom + stats.filesIgnoredByDefault
              = Cardinality(Excluded)

\* C21 witness: gatherFiles has excluded a path that the CLI patterns and the
\* custom patterns both flag, a path that only the default patterns flag, and
\* a path the .git safety filter removed
C21_Witness ==
    /\ Returning
    /\ \E f, g, h \in Excluded :
          /\ ~IsGitPath(f) /\ Ignores(opts.cliIgnores, Rel(f)) /\ Ignores(opts.customPatterns, Rel(f))
          /\ ~IsGitPath(g) /\ FirstFlagging(g) = "default"
          /\ IsGitPath(h)

\* watch mode is on
Watching == watch.stage = "watching"

\* execution k of runBuild has started
Started(k) == watch.exec[k].at # NotYet

\* call k is the last event of its burst: no call followed it by less than
\* the debounce delay
LastOfBurst(k) == k = watch.calls \/ watch.calledAt[k + 1] - watch.calledAt[k] >= Wait

\* C22 as stated: of a burst of events, each less than the debounce delay
\* after the one before, exactly one leads to an execution of the pipeline,
\* the last one, and the execution starts after it: no event that is followed
\* within the delay has its execution started, and the last event of a burst
\* has its execution started once the delay has passed.
C22_Original ==
    Watching =>
        \A k \in CallIds :
            /\ Started(k) => (LastOfBurst(k) /\ watch.exec[k].at >= watch.calledAt[k])
            /\ (LastOfBurst(k) /\ watch.now > watch.calledAt[k] + Wait) => Started(k)

\* C29 as stated: at most one execution of runBuild is in progress at any
\* time.
C29_Original == Watching => Cardinality(Running) <= 1

\* C30 as stated: the promise of a call is rejected with 'Debounced' only if
\* the execution the call scheduled never started, and otherwise it is
\* resolved or rejected only with the outcome of that execution.
C30_Original ==
    Watching =>
        \A k \in CallIds :
            /\ watch.promise[k].state = "debounced" => ~Started(k)
            /\ watch.promise[k].state \in { "resolved", "rejected" } => watch.promise[k].by = k

\* the files to include that processFiles skipped for their size, and the others
SkippedLarge == { i \in 1..Len(files.filesToInclude) : IsLarge(files.filesToInclude[i]) }
NotSkipped == { i \in 1..Len(files.filesToInclude) : ~IsLarge(files.filesToInclude[i]) }

\* C23 as stated: in the returned statistics a file skipped for its size is
\* counted in skippedLargeFiles and not in filesToInclude: filesToInclude
\* counts the files to include that were not skipped or, with a token budget,
\* the accepted files, none of which was skipped.
C23_Original ==
    Done =>
        /\ result.stats.skippedLargeFiles = Cardinality(SkippedLarge)
        /\ \A i \in 1..Len(result.files) : ~IsLarge(result.files[i].path)
        /\ result.stats.filesToInclude =
              IF Budgeted THEN Len(result.files) ELSE Cardinality(NotSkipped)

\* the content holds three line breaks in a row: two empty lines in a row
\* between two others, counted on the joined string
NewlineRun(content) ==
    LET flat == Join(content)
    IN  \E i \in 1..(Len(flat) - 2) :
            flat[i] = "\n" /\ flat[i + 1] = "\n" /\ flat[i + 2] = "\n"

\* C24 as stated: the content made with removeWhitespace = true of a file
\* that is neither whitespace-sensitive nor Python holds no run of three or
\* more line breaks, whatever the file holds.
C24_Original ==
    (/\ text.stage = "done"
     /\ text.removeWhitespace
     /\ ~IsWhitespaceSensitive(text.name)
     /\ ~IsPythonFilePath(text.name)) => ~NewlineRun(text.content)

\* the content readAndProcessTextFile makes of the file with the other value
\* of stripFileComments (keepComments is its negation)
OtherKeepComments ==
    FinalContent(text.name, text.fileContent, ~text.stripFileComments, text.removeWhitespace)

LastEntry(line, lines) ==
    \A j \in 1..Len(lines) :
        lines[j].dir = line.dir =>
            \A m, n \in 1..Len(NameOrder) :
                (NameOrder[m] = lines[j].key /\ NameOrder[n] = line.key) => m <= n

\* C25 as stated: in the structure tree generateContext returns, the last
\* entry of every directory in sorted order, the root included, is drawn with
\* the last-sibling connector and every other entry with the branch
\* connector.
C25_Original ==
    (Done /\ opts.call = "generateContext") =>
        \A i \in 1..Len(result.treeString) :
            (result.treeString[i].connector = "last")
                <=> LastEntry(result.treeString[i], result.treeString)

\* C27 as stated: for budgets B1 < B2 on the same processed files and priority
\* patterns, every file selected under B1 is also selected under B2 (B2 being
\* the budget of the run, B1 any smaller budget).
C27_Original ==
    pc = "allocated" =>
        \A b1 \in Budgets :
            b1 < opts.tokenBudget =>
                PathsOf(Selected(BudgetInput, b1)) \subseteq PathsOf(budgetFiles)

\* C27 amended: for budgets B1 < B2 on the same processed files and priority
\* patterns, every priority file selected under B1 is also selected under B2,
\* and every other file selected under B1 is also selected under B2 when B2
\* selects no priority file that B1 does not select.
C27_SelectionNested ==
    pc = "allocated" =>
        \A b1 \in Budgets :
            b1 < opts.tokenBudget =>
                LET selected1 == Selected(BudgetInput, b1)
                    priority1 == PathsOf(SelectSeq(selected1, IsPriority))
                    priority2 == PathsOf(SelectSeq(budgetFiles, IsPriority))
                IN  /\ priority1 \subseteq priority2
                    /\ priority1 = priority2 => PathsOf(selected1) \subseteq PathsOf(budgetFiles)

\* C27 witness: a smaller budget selects a priority file and another file, the
\* run's budget selects the same priority files, both files and one file more
C27_Witness ==
    /\ pc = "allocated"
    /\ \E b1 \in Budgets :
          LET selected1 == Selected(BudgetInput, b1)
          IN  /\ b1 < opts.tokenBudget
              /\ \E i, j \in 1..Len(selected1) : IsPriority(selected1[i]) /\ ~IsPriority(selected1[j])
              /\ PathsOf(SelectSeq(selected1, IsPriority)) = PathsOf(SelectSeq(budgetFiles, IsPriority))
              /\ PathsOf(selected1) \subseteq PathsOf(budgetFiles)
              /\ Len(selected1) < Len(budgetFiles)

\* what generateContext returns for the files and statistics of this run
\* when no tokenBudget is given
WithoutBudget == ReturnedOf("generateContext", SortDesc(processedFiles), stats)

\* the budget of the run is at least the token counts of all processed files
LargeBudget ==
    /\ Done /\ Budgeted /\ opts.call = "generateContext"
    /\ opts.tokenBudget >= SumTokens(processedFiles)

\* C28 as stated: with a tokenBudget of at least the sum of the token counts
\* of all processed files generateContext returns the finalContent (the tree
\* and the blocks of the files in their order) and the statistics that it
\* returns for the same inputs with no tokenBudget.
C28_Original ==
    LargeBudget =>
        /\ result.files = WithoutBudget.files
        /\ result.treeString = WithoutBudget.treeString
        /\ result.stats = WithoutBudget.stats

====
